---- MODULE Spec2Model ----
(***************************************************************************)
(* A model of the point quadtree of src/quadtree.go: construction          *)
(* (NewQuadtree), insertion (Add / addInternal with its split), the range  *)
(* query (Query / queryInternal) and the visitor form of the query         *)
(* (QueryIterative, which the tests call).                                 *)
(*                                                                         *)
(* Numbers.  The source computes on float64.  The model computes on a      *)
(* binary floating-point format of the same shape with a significand of    *)
(* Precision bits (float64 has 53): a number is an integer count of a      *)
(* fixed unit of length, it is representable when it is m * 2^e with       *)
(* |m| < 2^Precision, and a sum is rounded to the nearest representable    *)
(* number, ties to the even significand (fadd).  The root rectangles have  *)
(* sides that are multiples of 2^(MaxDepthBound+1) units, so every         *)
(* r.Width/2.0 and r.Height/2.0 the code evaluates, down to the deepest    *)
(* node, is the halving of an even number and is exact, as it is in        *)
(* float64 (ExactHalving checks the evenness).  One root rectangle lies    *)
(* near the origin, where every sum the code forms is exact; the other     *)
(* lies where the spacing of the representable numbers is the width of     *)
(* the root, as Rect{1e16, 0, 2, 2} does in float64.                       *)
(*                                                                         *)
(* Pointers.  A *node or *Quadtree is Nil (<<>>) or Ref(x) (<<x>>).  A     *)
(* slice is a record [isNil, elems]: Go tells the nil slice from the       *)
(* empty one (node.items != nil), and so does the model.                   *)
(*                                                                         *)
(* Panics.  Dereferencing a nil *node panics in Go.  The recursive         *)
(* operators return the panic as a flag instead of leaving it undefined.   *)
(***************************************************************************)
EXTENDS Integers, Sequences, FiniteSets, TLC

VARIABLES
    qt,       \* the *Quadtree the caller holds: Nil or Ref(tree)
    lastOp,   \* the last call made, its arguments and what it returned
    added     \* history: the entries of the Add calls that returned no error

vars == <<qt, lastOp, added>>

(***************************************************************************)
(* Bounds of the model.                                                    *)
(***************************************************************************)
MaxDepthBound == 2      \* maxDepth is drawn from -1 .. MaxDepthBound
MaxAdds == 3            \* successful Add calls per behaviour
Precision == 6          \* bits of the significand of the model's float format


(***************************************************************************)
(* Constants of src/quadtree.go.                                           *)
(***************************************************************************)
quadrantNone == -1
quadrantUpperLeft == 0
quadrantUpperRight == 1
quadrantLowerLeft == 2
quadrantLowerRight == 3

(***************************************************************************)
(* Values.                                                                 *)
(***************************************************************************)
Nil == <<>>
Ref(x) == <<x>>
Deref(p) == p[1]

Point(x, y) == [X |-> x, Y |-> y]
Rect(x, y, w, h) == [X |-> x, Y |-> y, Width |-> w, Height |-> h]
treeEntry(position, data) == [position |-> position, data |-> data]

NilSlice == [isNil |-> TRUE, elems |-> <<>>]
make == [isNil |-> FALSE, elems |-> <<>>]
len(s) == Len(s.elems)
\* append that puts the new element first.
append_front(s, x) == [isNil |-> FALSE, elems |-> <<x>> \o s.elems]

append(s, x) == [isNil |-> FALSE, elems |-> Append(s.elems, x)]

\* r.Width / 2.0 and r.Height / 2.0, on an even number of units.
Half(x) == x \div 2

Abs(v) == IF v < 0 THEN 0 - v ELSE v

\* The spacing of the representable numbers at the magnitude of v.
Ulp(v) ==
    LET e == CHOOSE k \in 0 .. MaxDepthBound + 4 :
                 /\ Abs(v) < 2 ^ (Precision + k)
                 /\ (k = 0 \/ Abs(v) >= 2 ^ (Precision + k - 1))
    IN  2 ^ e

\* v rounded to the nearest representable number, ties to even.
Round(v) ==
    IF Abs(v) < 2 ^ Precision THEN v
    ELSE LET s == Ulp(v)
             q == Abs(v) \div s
             rem == Abs(v) % s
             m == IF 2 * rem > s \/ (2 * rem = s /\ q % 2 = 1)
                  THEN (q + 1) * s
                  ELSE q * s
         IN  IF v < 0 THEN 0 - m ELSE m

\* a + b in the float format: every + of the source.
fadd(a, b) == Round(a + b)

(***************************************************************************)
(* Geometry.                                                               *)
(***************************************************************************)
\* Contains with the right edge taken in: point.X <= r.X + r.Width.
Contains_rightEdgeIn(r, point) ==
    /\ point.X >= r.X
    /\ point.Y >= r.Y
    /\ point.X <= fadd(r.X, r.Width)
    /\ point.Y < fadd(r.Y, r.Height)

\* Contains with both upper edges taken in.
Contains_closed(r, point) ==
    /\ point.X >= r.X
    /\ point.Y >= r.Y
    /\ point.X <= fadd(r.X, r.Width)
    /\ point.Y <= fadd(r.Y, r.Height)

Contains(r, point) ==
    /\ point.X >= r.X
    /\ point.Y >= r.Y
    /\ point.X < fadd(r.X, r.Width)
    /\ point.Y < fadd(r.Y, r.Height)

\* overlaps with r2's width left out of the first comparison.
overlaps_noWidth(r1, r2) ==
    /\ r1.X < r2.X
    /\ fadd(r1.X, r1.Width) > r2.X
    /\ fadd(r1.Y, r1.Height) > r2.Y
    /\ r1.Y < fadd(r2.Y, r2.Height)

overlaps(r1, r2) ==
    /\ r1.X < fadd(r2.X, r2.Width)
    /\ fadd(r1.X, r1.Width) > r2.X
    /\ fadd(r1.Y, r1.Height) > r2.Y
    /\ r1.Y < fadd(r2.Y, r2.Height)

\* quadrants with the rectangles of ul and ll exchanged.
quadrants_ulSwapped(r) ==
    LET w == Half(r.Width)
        h == Half(r.Height)
    IN  [ul |-> Rect(r.X, r.Y, w, h),
         ll |-> Rect(r.X, fadd(r.Y, h), w, h),
         ur |-> Rect(fadd(r.X, w), fadd(r.Y, h), w, h),
         lr |-> Rect(fadd(r.X, w), r.Y, w, h)]

quadrants(r) ==
    LET w == Half(r.Width)
        h == Half(r.Height)
    IN  [ll |-> Rect(r.X, r.Y, w, h),
         ul |-> Rect(r.X, fadd(r.Y, h), w, h),
         ur |-> Rect(fadd(r.X, w), fadd(r.Y, h), w, h),
         lr |-> Rect(fadd(r.X, w), r.Y, w, h)]

whichQuadrant(r, p) ==
    IF ~Contains(r, p) THEN quadrantNone
    ELSE LET midX == fadd(r.X, Half(r.Width))
             midY == fadd(r.Y, Half(r.Height))
         IN  IF p.X < midX
             THEN (IF p.Y < midY THEN quadrantLowerLeft ELSE quadrantUpperLeft)
             ELSE (IF p.Y < midY THEN quadrantLowerRight ELSE quadrantUpperRight)

(***************************************************************************)
(* Nodes and construction.                                                 *)
(***************************************************************************)
\* newNode without the make: the child's items slice is nil.
newNode_nilItems(parent, bounds) ==
    [bounds |-> bounds, depth |-> parent.depth + 1, items |-> NilSlice,
     ul |-> Nil, ur |-> Nil, ll |-> Nil, lr |-> Nil]

\* newNode that gives the child its parent's depth plus two.
newNode_skipsDepth(parent, bounds) ==
    [bounds |-> bounds, depth |-> parent.depth + 2, items |-> make,
     ul |-> Nil, ur |-> Nil, ll |-> Nil, lr |-> Nil]

newNode(parent, bounds) ==
    [bounds |-> bounds, depth |-> parent.depth + 1, items |-> make,
     ul |-> Nil, ur |-> Nil, ll |-> Nil, lr |-> Nil]

\* NewQuadtree that rejects maxDepth < 0 only.
NewQuadtree_depthZero(bounds, maxDepth, maxItemsPerNode) ==
    IF maxDepth < 0 THEN [qt |-> Nil, err |-> TRUE]
    ELSE IF maxItemsPerNode <= 0 THEN [qt |-> Nil, err |-> TRUE]
    ELSE [qt |-> Ref([maxDepth |-> maxDepth,
                      maxItemsPerNode |-> maxItemsPerNode,
                      root |-> [bounds |-> bounds, depth |-> 0, items |-> make,
                                ul |-> Nil, ur |-> Nil, ll |-> Nil, lr |-> Nil],
                      size |-> 0,
                      debugAssertions |-> FALSE]),
          err |-> FALSE]

NewQuadtree(bounds, maxDepth, maxItemsPerNode) ==
    IF maxDepth <= 0 THEN [qt |-> Nil, err |-> TRUE]
    ELSE IF maxItemsPerNode <= 0 THEN [qt |-> Nil, err |-> TRUE]
    ELSE [qt |-> Ref([maxDepth |-> maxDepth,
                      maxItemsPerNode |-> maxItemsPerNode,
                      root |-> [bounds |-> bounds, depth |-> 0, items |-> make,
                                ul |-> Nil, ur |-> Nil, ll |-> Nil, lr |-> Nil],
                      size |-> 0,
                      debugAssertions |-> FALSE]),
          err |-> FALSE]

Size(t) == t.size

(***************************************************************************)
(* Insertion.  The source mutates nodes through pointers; the operators    *)
(* return the node as the call leaves it, with what the call did:          *)
(* [node, panic, exits, splits, nesting], exits the number of returns      *)
(* through the quadrantNone branch, splits the number of splits, nesting   *)
(* the deepest chain of addInternal frames on the stack.                   *)
(***************************************************************************)
\* One frame of addInternal that returned without calling itself.
Ok(node) ==
    [node |-> node, panic |-> FALSE, exits |-> 0, splits |-> 0, nesting |-> 1]
Panicked(node) ==
    [node |-> node, panic |-> TRUE, exits |-> 0, splits |-> 0, nesting |-> 1]

\* The return of the quadrantNone branch: the node untouched.
Exit(node) == [Ok(node) EXCEPT !.exits = 1]

\* No call made: the range loop over no items.
Done(node) ==
    [node |-> node, panic |-> FALSE, exits |-> 0, splits |-> 0, nesting |-> 0]

\* Two calls made one after the other from one frame.
Then(r1, r2) ==
    [node |-> r2.node, panic |-> r2.panic,
     exits |-> r1.exits + r2.exits,
     splits |-> r1.splits + r2.splits,
     nesting |-> IF r1.nesting > r2.nesting THEN r1.nesting ELSE r2.nesting]

\* The calls r made from inside a frame of addInternal.
Within(r) == [r EXCEPT !.nesting = @ + 1]

\* The switch of addInternal: the child pointer the quadrant selects.
child(node, quadrant) ==
    CASE quadrant = quadrantUpperLeft -> node.ul
      [] quadrant = quadrantUpperRight -> node.ur
      [] quadrant = quadrantLowerLeft -> node.ll
      [] quadrant = quadrantLowerRight -> node.lr

\* The node after the callee has mutated the child the quadrant selects.
withChild(node, quadrant, c) ==
    CASE quadrant = quadrantUpperLeft -> [node EXCEPT !.ul = Ref(c)]
      [] quadrant = quadrantUpperRight -> [node EXCEPT !.ur = Ref(c)]
      [] quadrant = quadrantLowerLeft -> [node EXCEPT !.ll = Ref(c)]
      [] quadrant = quadrantLowerRight -> [node EXCEPT !.lr = Ref(c)]

\* split that never sets node.lr.
split_noLowerRight(node) ==
    LET q == quadrants(node.bounds)
    IN  [node EXCEPT !.ul = Ref(newNode(node, q.ul)),
                     !.ur = Ref(newNode(node, q.ur)),
                     !.ll = Ref(newNode(node, q.ll)),
                     !.items = NilSlice]

\* The split of addInternal up to node.items = nil: four new children, one
\* per quadrant of the bounds, and the items slice dropped.
split(node) ==
    LET q == quadrants(node.bounds)
    IN  [node EXCEPT !.ul = Ref(newNode(node, q.ul)),
                     !.ur = Ref(newNode(node, q.ur)),
                     !.ll = Ref(newNode(node, q.ll)),
                     !.lr = Ref(newNode(node, q.lr)),
                     !.items = NilSlice]

\* The depth test with > for >=: a node at maxDepth still splits.
atMaxDepth_strict(t, node) == node.depth > t.maxDepth

\* The depth cap taken one level early: node.depth + 1 >= qt.maxDepth.
atMaxDepth_early(t, node) == node.depth + 1 >= t.maxDepth

\* node.depth >= qt.maxDepth: the node is at the depth cap.
atMaxDepth(t, node) == node.depth >= t.maxDepth

RECURSIVE addInternal(_, _, _)
RECURSIVE reinsert(_, _, _)

\* for _, i := range items { addInternal(qt, node, i) }
reinsert(t, node, items) ==
    IF items = <<>> THEN Done(node)
    ELSE LET r == addInternal(t, node, Head(items))
         IN  IF r.panic THEN r ELSE Then(r, reinsert(t, r.node, Tail(items)))

addInternal(t, node, item) ==
    LET quadrant == whichQuadrant(node.bounds, item.position)
    IN  IF quadrant = quadrantNone THEN Exit(node)
        ELSE IF ~node.items.isNil /\ atMaxDepth(t, node)
        THEN Ok([node EXCEPT !.items = append(@, item)])
        ELSE IF len(node.items) >= t.maxItemsPerNode
        THEN LET r == reinsert(t, split(node), node.items.elems)
                 s == [r EXCEPT !.splits = @ + 1]
             IN  IF r.panic THEN Within(s)
                 ELSE Within(Then(s, addInternal(t, r.node, item)))
        ELSE IF ~node.items.isNil
        THEN Ok([node EXCEPT !.items = append(@, item)])
        ELSE LET c == child(node, quadrant)
             IN  IF c = Nil THEN Panicked(node)
                 ELSE LET r == addInternal(t, Deref(c), item)
                      IN  Within([r EXCEPT !.node = withChild(node, quadrant, r.node)])

\* Add that counts the call before it tests the position.
AddCall_countsFirst(t, data, position) ==
    IF ~Contains(t.root.bounds, position)
    THEN [qt |-> [t EXCEPT !.size = @ + 1], err |-> TRUE, did |-> Done(t.root)]
    ELSE LET r == addInternal(t, t.root, treeEntry(position, data))
         IN  [qt |-> [t EXCEPT !.root = r.node, !.size = @ + 1],
              err |-> FALSE, did |-> r]

\* Add that doubles the sides of the root bounds when it rejects a
\* position.
AddCall_resizing(t, data, position) ==
    IF ~Contains(t.root.bounds, position)
    THEN [qt |-> [t EXCEPT !.root.bounds.Width = fadd(@, @),
                           !.root.bounds.Height = fadd(@, @)],
          err |-> TRUE, did |-> Done(t.root)]
    ELSE LET r == addInternal(t, t.root, treeEntry(position, data))
         IN  [qt |-> [t EXCEPT !.root = r.node, !.size = @ + 1],
              err |-> FALSE, did |-> r]

\* Quadtree.Add: [qt, err, did], qt the tree as the call leaves it and did
\* what addInternal did.
AddCall(t, data, position) ==
    IF ~Contains(t.root.bounds, position)
    THEN [qt |-> t, err |-> TRUE, did |-> Done(t.root)]
    ELSE LET r == addInternal(t, t.root, treeEntry(position, data))
         IN  IF r.panic
             THEN [qt |-> [t EXCEPT !.root = r.node], err |-> FALSE, did |-> r]
             ELSE [qt |-> [t EXCEPT !.root = r.node, !.size = @ + 1],
                   err |-> FALSE, did |-> r]

(***************************************************************************)
(* Range queries.  A consumer is a closure: the model passes its kind and  *)
(* threads the state it closes over, st = [items, calls, panic]:           *)
(*   items  the slice Query's closure appends to,                          *)
(*   calls  the calls the caller's visitor has received, each with the     *)
(*          value it returned,                                             *)
(*   panic  a nil dereference during the traversal.                        *)
(***************************************************************************)
NoResult == [items |-> <<>>, calls |-> <<>>, panic |-> FALSE]

\* The closure of Query: items = append(items, item.data); return true.
QueryConsumer(c, st, item) ==
    [st |-> [st EXCEPT !.items = Append(@, item.data)], ret |-> TRUE]

\* A caller's visitor that answers false from its stopAt-th call on, and
\* true always when stopAt = 0 (the test's visitor has stopAt = 2).
visitor(c, st, data, pos) ==
    LET ret == (c.stopAt = 0) \/ (Len(st.calls) + 1 < c.stopAt)
    IN  [st |-> [st EXCEPT !.calls =
                    Append(@, [data |-> data, pos |-> pos, ret |-> ret])],
         ret |-> ret]

\* The closure of QueryIterative: return visitor(item.data, item.position).
IterativeConsumer(c, st, item) == visitor(c, st, item.data, item.position)

consumer(c, st, item) ==
    IF c.kind = "Query" THEN QueryConsumer(c, st, item)
    ELSE IterativeConsumer(c, st, item)

RECURSIVE scanItems(_, _, _, _)
\* for _, e := range node.items { if bounds.Contains(e.position) { consumer(e) } }
\* The value the consumer returns is dropped.
scanItems(items, bounds, c, st) ==
    IF items = <<>> THEN st
    ELSE LET e == Head(items)
             st1 == IF Contains(bounds, e.position)
                    THEN consumer(c, st, e).st
                    ELSE st
         IN  scanItems(Tail(items), bounds, c, st1)

RECURSIVE queryInternal(_, _, _, _)
queryInternal(n, bounds, c, st) ==
    IF n = Nil \/ st.panic THEN [st EXCEPT !.panic = TRUE]
    ELSE LET node == Deref(n)
         IN  IF overlaps(node.bounds, bounds)
             THEN IF node.items.isNil
                  THEN queryInternal(node.lr, bounds, c,
                         queryInternal(node.ll, bounds, c,
                           queryInternal(node.ur, bounds, c,
                             queryInternal(node.ul, bounds, c, st))))
                  ELSE scanItems(node.items.elems, bounds, c, st)
             ELSE st

\* Quadtree.Query
QueryCall(t, bounds) ==
    queryInternal(Ref(t.root), bounds, [kind |-> "Query", stopAt |-> 0], NoResult)

\* Quadtree.QueryIterative
QueryIterativeCall(t, bounds, stopAt) ==
    queryInternal(Ref(t.root), bounds,
                  [kind |-> "QueryIterative", stopAt |-> stopAt], NoResult)

(***************************************************************************)
(* The inputs the model draws.                                             *)
(***************************************************************************)
\* The side the root rectangle is a multiple of: halving stays exact down
\* to the nodes at depth MaxDepthBound.
Unit == 2 ^ (MaxDepthBound + 1)

\* A root rectangle near the origin, not square and with a negative origin,
\* where every sum of the source is exact; and a square one whose origin is
\* so far out that the representable numbers are a root width apart there.
NearRoot == Rect(0 - Unit, 0 - Unit, 2 * Unit, Unit)
FarRoot == Rect(2 ^ (Precision + MaxDepthBound), 0, Unit, Unit)
RootBounds == {NearRoot, FarRoot}
DepthInputs == -1 .. MaxDepthBound
ItemsInputs == {-1, 0, 1, 2}

\* The centre of r: the point on both of its midlines.
Centre(r) == Point(fadd(r.X, Half(r.Width)), fadd(r.Y, Half(r.Height)))

\* A caller's values are float64 values: the representable numbers nearest
\* to the ones it writes.
Float(v) == Round(v)
FloatPoint(x, y) == Point(Float(x), Float(y))
FloatRect(x, y, w, h) == Rect(Float(x), Float(y), Float(w), Float(h))

\* What a caller adds to a tree with root bounds r, as <<data, position>>.
\* Inside: the lower left corner, the centre, the points left of and below
\* the centre, and the far corner; two payloads, each at several positions,
\* and any input may be added again.  Outside: a point on each upper edge
\* and a point just below each lower edge.  Around the far root a
\* coordinate one unit off an edge is the float64 value on the edge or
\* beyond it.
InsideInputs(r) ==
    LET c == Centre(r)
    IN  {<<"d1", FloatPoint(r.X, r.Y)>>,
         <<"d1", c>>,
         <<"d1", FloatPoint(c.X - 1, c.Y)>>,
         <<"d2", FloatPoint(c.X, c.Y - 1)>>,
         <<"d2", FloatPoint(r.X + r.Width - 1, r.Y + r.Height - 1)>>}

Payloads == {"d1", "d2"}

OutsideInputs(r) ==
    {<<"d1", FloatPoint(r.X + r.Width, r.Y)>>,
     <<"d1", FloatPoint(r.X, r.Y + r.Height)>>,
     <<"d1", FloatPoint(r.X - 1, r.Y)>>,
     <<"d1", FloatPoint(r.X, r.Y - 1)>>}

AddInputs(r) == InsideInputs(r) \cup OutsideInputs(r)

\* The 2 x 2 window around the centre of r: it holds the centre and the
\* points left of and below it, and cuts through the leaves that hold them.
Window(r) == FloatRect(Centre(r).X - 1, Centre(r).Y - 1, 2, 2)

\* Rectangles a caller queries: the root bounds, the window, a rectangle of
\* no width with the centre as its origin, one of no height with the lower
\* left corner as its origin, and the rectangle touching the root on its
\* right.
QueryRects(r) ==
    {r,
     Window(r),
     Rect(Centre(r).X, Centre(r).Y, 0, 1),
     Rect(r.X, r.Y, 1, 0),
     FloatRect(r.X + r.Width, r.Y, r.Width, r.Height)}

\* What a caller passes to QueryIterative, as <<bounds, stopAt>>: stopAt is
\* the call at which its visitor first answers false, 0 for never.
IterativeInputs(r) ==
    {<<r, 0>>, <<r, 1>>, <<r, 2>>, <<Window(r), 0>>, <<Window(r), 1>>}

NoPoint == Point(0, 0)
NoRect == Rect(0, 0, 0, 0)

Op(op) ==
    [op |-> op, bounds |-> NoRect, maxDepth |-> 0, maxItemsPerNode |-> 0,
     data |-> "", position |-> NoPoint, stopAt |-> 0,
     err |-> FALSE, panic |-> FALSE, items |-> <<>>, calls |-> <<>>,
     exits |-> 0, splits |-> 0, nesting |-> 0]

(***************************************************************************)
(* The state machine: a caller constructs a tree, then calls Add, Query    *)
(* and QueryIterative in any order.                                        *)
(***************************************************************************)
Init ==
    \E bounds \in RootBounds, maxDepth \in DepthInputs, maxItemsPerNode \in ItemsInputs :
        LET r == NewQuadtree(bounds, maxDepth, maxItemsPerNode)
        IN  /\ qt = r.qt
            /\ lastOp = [Op("NewQuadtree") EXCEPT !.bounds = bounds,
                                                   !.maxDepth = maxDepth,
                                                   !.maxItemsPerNode = maxItemsPerNode,
                                                   !.err = r.err]
            /\ added = <<>>

\* A caller that was handed an error, or whose call panicked, makes no
\* further call on the tree.
Usable == qt # Nil /\ ~lastOp.panic

Add ==
    /\ Usable
    /\ \E in \in AddInputs(Deref(qt).root.bounds) :
        LET data == in[1]
            position == in[2]
        IN  \E r \in {AddCall(Deref(qt), data, position)} :
            /\ r.err \/ Len(added) < MaxAdds
            /\ qt' = Ref(r.qt)
            /\ lastOp' = [Op("Add") EXCEPT !.data = data, !.position = position,
                                           !.err = r.err, !.panic = r.did.panic,
                                           !.exits = r.did.exits,
                                           !.splits = r.did.splits,
                                           !.nesting = r.did.nesting]
            /\ added' = IF r.err \/ r.did.panic THEN added
                        ELSE Append(added, treeEntry(position, data))

\* Query that hands out the root's items and leaves the root's slice empty.
Query_draining ==
    /\ Usable
    /\ \E bounds \in QueryRects(Deref(qt).root.bounds) :
        \E st \in {QueryCall(Deref(qt), bounds)} :
            /\ lastOp' = [Op("Query") EXCEPT !.bounds = bounds, !.items = st.items,
                                             !.panic = st.panic]
            /\ qt' = IF Deref(qt).root.items.isNil THEN qt
                     ELSE Ref([Deref(qt) EXCEPT !.root.items = make])
            /\ UNCHANGED added

Query ==
    /\ Usable
    /\ \E bounds \in QueryRects(Deref(qt).root.bounds) :
        \E st \in {QueryCall(Deref(qt), bounds)} :
            /\ lastOp' = [Op("Query") EXCEPT !.bounds = bounds, !.items = st.items,
                                             !.panic = st.panic]
            /\ UNCHANGED <<qt, added>>

QueryIterative ==
    /\ Usable
    /\ \E in \in IterativeInputs(Deref(qt).root.bounds) :
        LET bounds == in[1]
            stopAt == in[2]
        IN  \E st \in {QueryIterativeCall(Deref(qt), bounds, stopAt)} :
            /\ lastOp' = [Op("QueryIterative") EXCEPT !.bounds = bounds,
                                                      !.stopAt = stopAt,
                                                      !.calls = st.calls,
                                                      !.panic = st.panic]
            /\ UNCHANGED <<qt, added>>

Next == Add \/ Query \/ QueryIterative

Spec == Init /\ [][Next]_vars

(***************************************************************************)
(* What the properties speak of.                                           *)
(***************************************************************************)
\* The tree the caller holds.
T == Deref(qt)

\* The half-open test of the specification, written out: the properties
\* use it and never Contains, which is the code under test.  Its sums are
\* float64 sums, the upper edges a caller computes from the rectangle.
InRect(q, p) ==
    /\ q.X <= p.X /\ p.X < fadd(q.X, q.Width)
    /\ q.Y <= p.Y /\ p.Y < fadd(q.Y, q.Height)

\* Two rectangles with no point of the plane in common.
Apart(a, b) ==
    \/ a.X + a.Width <= b.X
    \/ b.X + b.Width <= a.X
    \/ a.Y + a.Height <= b.Y
    \/ b.Y + b.Height <= a.Y

Count(seq, x) == Cardinality({i \in DOMAIN seq : seq[i] = x})
Range(seq) == {seq[i] : i \in DOMAIN seq}
SameBag(s1, s2) ==
    \A x \in Range(s1) \cup Range(s2) : Count(s1, x) = Count(s2, x)

\* The payloads of a sequence of entries, in its order.
DataOf(entries) == [i \in DOMAIN entries |-> entries[i].data]

\* The successfully added entries whose position lies in q, in Add order.
Qualifying(q) == SelectSeq(added, LAMBDA e : InRect(q, e.position))

\* The stored entries whose position lies in q.
QualifyingOf(entries, q) == SelectSeq(entries, LAMBDA e : InRect(q, e.position))

\* The calls a visitor received, as entries.
CallsAsEntries(calls) ==
    [i \in DOMAIN calls |-> treeEntry(calls[i].pos, calls[i].data)]

\* The children a node points to.
Children(node) ==
    {Deref(c) : c \in {node.ul, node.ur, node.ll, node.lr} \ {Nil}}

RECURSIVE Nodes(_)
\* Every node of the subtree of node.
Nodes(node) == {node} \cup UNION {Nodes(c) : c \in Children(node)}

IsLeaf(node) ==
    /\ ~node.items.isNil
    /\ node.ul = Nil /\ node.ur = Nil /\ node.ll = Nil /\ node.lr = Nil

IsInternal(node) ==
    /\ node.items.isNil /\ len(node.items) = 0
    /\ node.ul # Nil /\ node.ur # Nil /\ node.ll # Nil /\ node.lr # Nil

RECURSIVE Flatten(_)
Flatten(seqs) == IF seqs = <<>> THEN <<>> ELSE Head(seqs) \o Flatten(Tail(seqs))

RECURSIVE Stored(_)
\* The entries the leaves of the subtree of node hold, leaf by leaf, each
\* leaf's in the order of its list.
Stored(node) ==
    IF ~node.items.isNil THEN node.items.elems
    ELSE Flatten([i \in 1 .. 4 |->
             LET c == <<node.ul, node.ur, node.ll, node.lr>>[i]
             IN  IF c = Nil THEN <<>> ELSE Stored(Deref(c))])

\* The model's arithmetic is the code's: every rectangle the code halves has
\* an even width and an even height.
ExactHalving ==
    qt # Nil => \A n \in Nodes(T.root) :
                    n.bounds.Width % 2 = 0 /\ n.bounds.Height % 2 = 0

(***************************************************************************)
(* C1.  Query(q) returns exactly the payloads of the successfully added    *)
(* entries whose position lies in q (half-open), as a multiset: none       *)
(* missing, none from outside q, a payload added twice returned twice.     *)
(***************************************************************************)
C1_QueryReturnsTheEntriesInside ==
    lastOp.op = "Query" =>
        SameBag(lastOp.items, DataOf(Qualifying(lastOp.bounds)))

(***************************************************************************)
(* C2.  Size() equals the number of Add calls that returned no error,      *)
(* whatever the number of rejected calls between them.                     *)
(***************************************************************************)
C2_SizeCountsSuccessfulAdds ==
    qt # Nil => Size(T) = Len(added)

\* A rejected Add after two successful ones.
C2_Witness ==
    /\ lastOp.op = "Add" /\ lastOp.err
    /\ Len(added) = 2
    /\ Size(T) = 2

(***************************************************************************)
(* C3.  Add returns an error exactly when the position fails the half-open *)
(* test against the root bounds, and then the tree, size included, is as   *)
(* it was before the call.                                                 *)
(***************************************************************************)
C3_AddRejectsExactlyOutside ==
    [][lastOp'.op = "Add" /\ qt # Nil =>
          /\ lastOp'.err <=> ~InRect(T.root.bounds, lastOp'.position)
          /\ lastOp'.err => qt' = qt
          /\ ~lastOp'.panic]_vars

\* An Add at a point of the right edge of the root, rejected, on a tree
\* that has split.
C3_Witness ==
    /\ lastOp.op = "Add" /\ lastOp.err
    /\ lastOp.position.X = T.root.bounds.X + T.root.bounds.Width
    /\ T.root.items.isNil

C5_NoCallAfterFalse ==
    lastOp.op = "QueryIterative" =>
        \A i \in DOMAIN lastOp.calls :
            i < Len(lastOp.calls) => lastOp.calls[i].ret

(***************************************************************************)
(* C6.  In the visitor query with a visitor that always returns true, the  *)
(* visitor is called once per stored entry whose position lies in the      *)
(* rectangle and for no other, with the entry's payload and the position   *)
(* given to the Add that stored it, and the payloads come in the order     *)
(* Query returns them.                                                     *)
(***************************************************************************)
C6_VisitorSeesEachEntryOnce ==
    lastOp.op = "QueryIterative" /\ lastOp.stopAt = 0 =>
        /\ SameBag(CallsAsEntries(lastOp.calls),
                   QualifyingOf(Stored(T.root), lastOp.bounds))
        /\ \A e \in Range(CallsAsEntries(lastOp.calls)) : e \in Range(added)
        /\ DataOf(CallsAsEntries(lastOp.calls)) = QueryCall(T, lastOp.bounds).items
        /\ \A i \in DOMAIN lastOp.calls : lastOp.calls[i].ret

\* A visitor query over the window on a split tree: two entries visited,
\* with the same payload at two positions, and one entry left out.
C6_Witness ==
    /\ lastOp.op = "QueryIterative" /\ lastOp.stopAt = 0
    /\ lastOp.bounds # T.root.bounds
    /\ Len(lastOp.calls) = 2
    /\ Len(added) = 3
    /\ lastOp.calls[1].data = lastOp.calls[2].data
    /\ lastOp.calls[1].pos # lastOp.calls[2].pos
    /\ T.root.items.isNil

(***************************************************************************)
(* C7.  When more than maxItemsPerNode entries have been added, all at one *)
(* position, they all lie in one leaf at depth maxDepth, every other leaf  *)
(* is empty, and Query over the root bounds returns all of them.           *)
(***************************************************************************)
SamePosition == \A i, j \in DOMAIN added : added[i].position = added[j].position

C7_DepthCapSaturation ==
    (qt # Nil /\ Len(added) > T.maxItemsPerNode /\ SamePosition) =>
        /\ ~lastOp.panic
        /\ \E n \in Nodes(T.root) :
            /\ IsLeaf(n)
            /\ n.depth = T.maxDepth
            /\ SameBag(n.items.elems, added)
            /\ \A m \in Nodes(T.root) \ {n} : len(m.items) = 0
        /\ SameBag(QueryCall(T, T.root.bounds).items, DataOf(added))

(***************************************************************************)
(* C8.  Query and the visitor query leave the tree as it was, and the same *)
(* query made again at once returns the same.                              *)
(***************************************************************************)
IsQuery(o) == o.op \in {"Query", "QueryIterative"}

C9_QueryNeverFails ==
    lastOp.op = "Query" =>
        /\ ~lastOp.panic
        /\ (lastOp.bounds.Width = 0 \/ lastOp.bounds.Height = 0
              \/ Apart(lastOp.bounds, T.root.bounds)) => lastOp.items = <<>>

\* A query with a rectangle of no width whose origin is the position of an
\* added entry, on a split tree.
C9_Witness ==
    /\ lastOp.op = "Query"
    /\ lastOp.bounds.Width = 0
    /\ \E i \in DOMAIN added :
        /\ added[i].position.X = lastOp.bounds.X
        /\ added[i].position.Y = lastOp.bounds.Y
    /\ T.root.items.isNil

(***************************************************************************)
(* C10.  Between calls every node is a leaf (items set, no child set) or   *)
(* internal (items unset, four children set), never anything between.      *)
(***************************************************************************)
C10_LeafOrInternal ==
    qt # Nil => \A n \in Nodes(T.root) : IsLeaf(n) \/ IsInternal(n)

\* A tree with an internal node below the internal root.
C10_Witness ==
    /\ qt # Nil
    /\ \E n \in Nodes(T.root) : n.depth = 1 /\ IsInternal(n)
    /\ \E n \in Nodes(T.root) : n.depth = 2 /\ IsLeaf(n) /\ len(n.items) > 0

(***************************************************************************)
(* C11.  Between calls every leaf above the depth cap holds at most        *)
(* maxItemsPerNode entries: only a leaf at depth maxDepth may hold more.   *)
(***************************************************************************)
C11_LeafCapacity ==
    qt # Nil =>
        \A n \in Nodes(T.root) :
            IsLeaf(n) /\ n.depth < T.maxDepth => len(n.items) <= T.maxItemsPerNode

\* A full leaf above the depth cap beside a leaf at the cap that holds more
\* than maxItemsPerNode entries.
C11_Witness ==
    /\ qt # Nil
    /\ \E n \in Nodes(T.root) :
        IsLeaf(n) /\ n.depth > 0 /\ n.depth < T.maxDepth
                  /\ len(n.items) = T.maxItemsPerNode
    /\ \E n \in Nodes(T.root) :
        IsLeaf(n) /\ n.depth = T.maxDepth /\ len(n.items) > T.maxItemsPerNode

(***************************************************************************)
(* C12.  The root has depth 0, a child has its parent's depth plus one,    *)
(* every depth lies in 0 .. maxDepth, and a node at depth maxDepth is a    *)
(* leaf: it never splits.                                                  *)
(***************************************************************************)
C12_DepthBounded ==
    qt # Nil =>
        /\ T.root.depth = 0
        /\ \A n \in Nodes(T.root) :
            /\ n.depth \in 0 .. T.maxDepth
            /\ \A c \in Children(n) : c.depth = n.depth + 1
            /\ n.depth = T.maxDepth => IsLeaf(n)

\* A tree with maxDepth 1 whose leaf at depth 1 was given three entries,
\* more than one split could have sent further down.
C12_Witness ==
    /\ qt # Nil
    /\ T.maxDepth = 1 /\ T.maxItemsPerNode = 1
    /\ \E n \in Nodes(T.root) : n.depth = 1 /\ IsLeaf(n) /\ len(n.items) = 3

(***************************************************************************)
(* C13.  For the bounds r of every node and every added position p that r  *)
(* contains, exactly one of the four rectangles of r.quadrants() contains  *)
(* p and it is the one whichQuadrant(r, p) names; the four have the same   *)
(* size and no two of them contain one point of the plane.                 *)
(***************************************************************************)
QuadrantOf(r, quadrant) ==
    CASE quadrant = quadrantUpperLeft -> quadrants(r).ul
      [] quadrant = quadrantUpperRight -> quadrants(r).ur
      [] quadrant = quadrantLowerLeft -> quadrants(r).ll
      [] quadrant = quadrantLowerRight -> quadrants(r).lr

Quadrants == {quadrantUpperLeft, quadrantUpperRight,
              quadrantLowerLeft, quadrantLowerRight}

C13_QuadrantsPartition ==
    qt # Nil =>
        \A n \in Nodes(T.root) :
            /\ \A i, j \in Quadrants :
                /\ QuadrantOf(n.bounds, i).Width = QuadrantOf(n.bounds, j).Width
                /\ QuadrantOf(n.bounds, i).Height = QuadrantOf(n.bounds, j).Height
                /\ i # j => Apart(QuadrantOf(n.bounds, i), QuadrantOf(n.bounds, j))
            /\ \A e \in Range(added) :
                Contains(n.bounds, e.position) =>
                    \A i \in Quadrants :
                        Contains(QuadrantOf(n.bounds, i), e.position)
                            <=> i = whichQuadrant(n.bounds, e.position)

(***************************************************************************)
(* C14.  Between calls every entry a leaf holds has its position inside    *)
(* the leaf's bounds, and an Add that passed the test on the root bounds   *)
(* never returns through the quadrantNone branch of addInternal, neither   *)
(* on its way down nor while a split re-inserts the entries of a leaf.     *)
(***************************************************************************)
C14_NoDefensiveExit ==
    qt # Nil =>
        /\ \A n \in Nodes(T.root) :
            \A i \in DOMAIN n.items.elems :
                InRect(n.bounds, n.items.elems[i].position)
        /\ lastOp.op = "Add" /\ ~lastOp.err => lastOp.exits = 0

(***************************************************************************)
(* C15.  Between calls the entries of every leaf are listed in the order   *)
(* of the Add calls that inserted them, also after splits moved them, and  *)
(* Query returns the payloads it takes from one leaf in that order.        *)
(***************************************************************************)
RECURSIVE IsSubseq(_, _)
\* s is t with some of its elements left out.
IsSubseq(s, t) ==
    IF s = <<>> THEN TRUE
    ELSE IF t = <<>> THEN FALSE
    ELSE IF Head(s) = Head(t) THEN IsSubseq(Tail(s), Tail(t))
    ELSE IsSubseq(s, Tail(t))

C15_LeafKeepsAddOrder ==
    qt # Nil =>
        \A n \in Nodes(T.root) :
            /\ IsSubseq(n.items.elems, added)
            /\ lastOp.op = "Query" =>
                   IsSubseq(DataOf(QualifyingOf(n.items.elems, lastOp.bounds)),
                            lastOp.items)

\* A query that returned two payloads of one leaf below the root, which a
\* split filled with entries of different payloads.
C15_Witness ==
    /\ lastOp.op = "Query"
    /\ \E n \in Nodes(T.root) :
        /\ n.depth > 0 /\ len(n.items) >= 2
        /\ n.items.elems[1].data # n.items.elems[2].data
        /\ \A i \in 1 .. 2 : InRect(lastOp.bounds, n.items.elems[i].position)
        /\ Len(lastOp.items) >= 2

(***************************************************************************)
(* C16.  Every Add returns: it makes at most maxDepth splits, one per      *)
(* level, and its chain of nested addInternal calls is at most two frames  *)
(* per level above the depth cap and one at the leaf that takes the entry. *)
(***************************************************************************)
C16_AddTerminates ==
    qt # Nil /\ lastOp.op = "Add" =>
        /\ ~lastOp.panic
        /\ lastOp.splits <= T.maxDepth
        /\ lastOp.nesting <= 2 * T.maxDepth + 1

\* An Add that split the root and then the child that took every entry,
\* down to the depth cap.
C16_Witness ==
    /\ qt # Nil /\ lastOp.op = "Add" /\ ~lastOp.err
    /\ T.maxDepth = 2
    /\ lastOp.splits = 2
    /\ lastOp.nesting = 5

(***************************************************************************)
(* C17.  In every step, every node of the tree is still there, under the   *)
(* same parent and in the same quadrant, with the bounds and the depth it  *)
(* had; a node that was internal is internal, and a leaf that is still a   *)
(* leaf holds the entries it held, followed by what the step added.        *)
(***************************************************************************)
RECURSIVE Paths(_)
\* The nodes of the subtree of node, each as the sequence of quadrants that
\* leads to it.
Paths(node) ==
    {<<>>} \cup
    UNION {{<<i>> \o path : path \in Paths(Deref(child(node, i)))} :
              i \in {j \in Quadrants : child(node, j) # Nil}}

RECURSIVE NodeAt(_, _)
NodeAt(node, path) ==
    IF path = <<>> THEN node
    ELSE NodeAt(Deref(child(node, Head(path))), Tail(path))

IsPrefix(s, t) == Len(s) <= Len(t) /\ SubSeq(t, 1, Len(s)) = s

NodeKept(old, new) ==
    /\ new.bounds = old.bounds
    /\ new.depth = old.depth
    /\ IsInternal(old) => IsInternal(new)
    /\ IsLeaf(old) /\ IsLeaf(new) => IsPrefix(old.items.elems, new.items.elems)

C17_SplitIsOneWay ==
    [][qt # Nil /\ qt' # qt =>
          /\ qt' # Nil
          /\ \A path \in Paths(T.root) :
              /\ path \in Paths(Deref(qt').root)
              /\ NodeKept(NodeAt(T.root, path), NodeAt(Deref(qt').root, path))]_vars

\* An Add that split a leaf below an internal root holding entries in
\* another of its children.
C17_Witness ==
    /\ lastOp.op = "Add" /\ lastOp.splits = 1
    /\ \E n \in Children(T.root) : IsInternal(n)
    /\ \E n \in Children(T.root) : IsLeaf(n) /\ len(n.items) > 0

(***************************************************************************)
(* C18.  Between calls Size() is the number of entries the leaves hold,    *)
(* and the entries the leaves hold are, as a multiset, the entries of the  *)
(* successful Add calls: no split loses an entry or stores one twice.      *)
(***************************************************************************)
C18_EntriesConserved ==
    qt # Nil =>
        /\ Size(T) = Len(Stored(T.root))
        /\ SameBag(Stored(T.root), added)

====
